---- MODULE Spec2Model ----
(***************************************************************************)
(* Model of Duke.py: the recursive, single-threaded crawl that fills       *)
(* download_queue, the pool of download_worker threads that drains it,     *)
(* and main's start / join / save_results sequence.                        *)
(*                                                                         *)
(* The web is an external collaborator.  It is represented by a small      *)
(* family of link graphs over three page URLs on two hosts and by the      *)
(* media URLs each page references; every fetch may succeed or fail.       *)
(***************************************************************************)
EXTENDS Integers, Sequences, FiniteSets, TLC

(* ------------------------------ bounds -------------------------------- *)
\* max_depth is read from 0..MaxDepthIn
MaxDepthIn == 2
\* max_pages is read from 0..MaxPagesIn
MaxPagesIn == 3
\* min_size_kb is read from 0..MaxMinSize
MaxMinSize == 1
\* each per-type limit is read from 0..MaxLimit, and from 1..MaxLimit + 1 on
\* the page of many images
MaxLimit == 1
\* declared Content-Length values reach MaxKB kilobytes
MaxKB == 1
\* random.randint yields RandLo .. RandLo + RandSpan - 1 in the model
RandSpan == 1

(* ------------------------- program constants -------------------------- *)
MAX_THREADS == 8
KB == 1024
RandLo == 1000
\* stands for an absent Content-Length header (r.headers.get default)
NoHeader == -1

MediaTypes == {"images", "videos", "audio", "documents"}

\* media_map of main, with the .get default
media_map(choice) ==
    CASE choice = "1" -> <<"images">>
      [] choice = "2" -> <<"videos">>
      [] choice = "3" -> <<"audio">>
      [] choice = "4" -> <<"documents">>
      [] choice = "5" -> <<"images", "videos", "audio", "documents">>
      [] OTHER        -> <<"images">>

\* the answers to the media-type prompt that the model enumerates
Choices == {"1", "2", "3", "x"}

(* ------------------------------ the web ------------------------------- *)
\* A URL is a record: netloc and path for pages; media URLs add the parts
\* that filename derivation reads (basename stem / extension, and the
\* extension that os.path.splitext sees on the whole URL string).
PageA0 == [netloc |-> "a", path |-> "/0"]
PageA1 == [netloc |-> "a", path |-> "/1"]
PageB0 == [netloc |-> "b", path |-> "/0"]
Pages  == {PageA0, PageA1, PageB0}
Seed   == PageA0

\* basename "x.png"
MediaX  == [netloc |-> "a", dir |-> "/img/", stem |-> "x", ext |-> ".png", urlext |-> ".png"]
\* another URL with the same basename "x.png"
MediaX2 == [netloc |-> "b", dir |-> "/pic/", stem |-> "x", ext |-> ".png", urlext |-> ".png"]
\* basename "clip" without a dot; the query string ends in ".mp4"
MediaV  == [netloc |-> "a", dir |-> "/v/", stem |-> "clip", ext |-> "", urlext |-> ".mp4"]
Webs == {"cycle", "chain", "detour"}

\* the absolute URLs of the <a href> tags of a page (urljoin already applied)
Hrefs(web, page) ==
    CASE web = "cycle"  -> (CASE page = PageA0 -> {PageA1, PageB0}
                              [] page = PageA1 -> {PageA0, PageB0}
                              [] OTHER         -> {PageA1})
      [] web = "chain"  -> (CASE page = PageA0 -> {PageA1}
                              [] page = PageA1 -> {PageB0}
                              [] OTHER         -> {PageA0})
      [] OTHER          -> (CASE page = PageA0 -> {PageA0, PageB0}
                              [] page = PageB0 -> {PageA1}
                              [] OTHER         -> {})

\* the media URLs a page references through the tags of one media type
MediaRefs(page, mtype) ==
    CASE page = PageA0 /\ mtype = "images" -> {MediaX}
      [] page = PageA1 /\ mtype = "images" -> {MediaX2}
      [] page = PageA1 /\ mtype = "videos" -> {MediaV}
      [] page = PageB0 /\ mtype = "images" -> {MediaX}
      [] OTHER -> {}

(* ------------------------------ helpers ------------------------------- *)
Min(a, b) == IF a <= b THEN a ELSE b

Range(s) == {s[i] : i \in 1..Len(s)}

\* all the orders in which a set can be iterated
Orders(S) == {s \in [1..Cardinality(S) -> S] : Range(s) = S}


(* --------------------------- pure functions --------------------------- *)
\* urlparse(url).netloc
netloc(url) == url.netloc

\* extract_links with the same-domain test left out
extract_links_unfiltered(hrefs, base_url, sd) == hrefs

\* extract_links: every href whose host passes the same-domain test, which
\* compares with the host of base_url, the page the link was found on
extract_links(hrefs, base_url, sd) ==
    {full_url \in hrefs : ~(sd /\ netloc(full_url) # netloc(base_url))}

\* crawl's guard with the page ceiling tested by > instead of >=
crawl_guard_late(url, visited, depth, maxd, maxp) ==
    url \in visited \/ depth > maxd \/ Cardinality(visited) > maxp

\* crawl's guard with the ceiling tested only in the top-level call
crawl_guard_top_only(url, visited, depth, maxd, maxp) ==
    url \in visited \/ depth > maxd \/ (depth = 0 /\ Cardinality(visited) >= maxp)

\* crawl's guard with the depth test off by one
crawl_guard_deep(url, visited, depth, maxd, maxp) ==
    url \in visited \/ depth > maxd + 1 \/ Cardinality(visited) >= maxp

\* the guard that opens crawl: TRUE when the call returns at once
crawl_guard(url, visited, depth, maxd, maxp) ==
    url \in visited \/ depth > maxd \/ Cardinality(visited) >= maxp

\* the header value the worker reads: int(r.headers.get("Content-Length", 0))
ContentLength(h) == IF h = NoHeader THEN 0 ELSE h

\* the size test applied to the byte count instead of the kilobyte count
size_rejected_bytes(bytes, minkb) == bytes < minkb

\* size_kb < min_size_kb, with size_kb = bytes / 1024 (exact division)
size_rejected(bytes, minkb) == bytes < minkb * KB

\* int(size_kb)
size_kb_int(bytes) == bytes \div KB

\* the quota test made with > instead of >=
quota_reached_late(limits, counts, mtype) ==
    LET limit == IF mtype \in DOMAIN limits THEN limits[mtype] ELSE 0
        count == IF mtype \in DOMAIN counts THEN counts[mtype] ELSE 0
    IN  limit # 0 /\ count > limits[mtype]

\* the quota test that opens the worker loop body
quota_reached(limits, counts, mtype) ==
    LET limit == IF mtype \in DOMAIN limits THEN limits[mtype] ELSE 0
        count == IF mtype \in DOMAIN counts THEN counts[mtype] ELSE 0
    IN  limit # 0 /\ count >= limits[mtype]

\* media_count[mtype] = media_count.get(mtype, 0) + 1
incremented(counts, mtype) ==
    [t \in DOMAIN counts \cup {mtype} |->
        IF t = mtype
        THEN (IF mtype \in DOMAIN counts THEN counts[mtype] ELSE 0) + 1
        ELSE counts[t]]

\* the filenames lines 68-71 can produce for a media URL
filenames(url) ==
    IF url.ext = ""
    THEN {[stem |-> "file_", num |-> n,
           ext |-> IF url.urlext # "" THEN url.urlext ELSE ".bin"] :
             n \in RandLo .. RandLo + RandSpan - 1}
    ELSE {[stem |-> url.stem, num |-> 0, ext |-> url.ext]}

\* os.path.join(save_dir, mtype, filename)
filepath(mtype, filename) == <<mtype, filename>>

\* the dict appended to downloaded_media
record(item, bytes, filename) ==
    [url |-> item[1], type |-> item[2], size_kb |-> size_kb_int(bytes),
     filename |-> filename, source_page |-> item[3]]

\* the queue items one page contributes: media types in list order, the
\* links of one type in any iteration order
page_items(url, mtypes) ==
    LET perType(i) == {[k \in 1..Len(o) |-> <<o[k], mtypes[i], url>>] :
                          o \in Orders(MediaRefs(url, mtypes[i]))}
        RECURSIVE from(_)
        from(i) == IF i > Len(mtypes) THEN {<<>>}
                   ELSE {a \o b : a \in perType(i), b \in from(i + 1)}
    IN  from(1)

(* ------------------------------- state -------------------------------- *)
VARIABLES
    web,               \* the link graph served to the crawl
    media_types,       \* main's inputs
    min_size_kb,
    max_depth,
    max_pages,
    same_domain,
    max_per_type,
    visited_urls,      \* module globals
    download_queue,
    unfinished_tasks,  \* download_queue's count of items put and not yet task_done
    downloaded_media,
    stack,             \* the active crawl calls, outermost first
    nfetch,            \* get_page_content calls made so far, per URL
    files,             \* paths that exist under save_dir/<type>/
    complete,          \* those last closed after a whole stream was written
    pcMain,            \* main's position
    nthreads,          \* value of min(MAX_THREADS, qsize) at line 196
    started,           \* threads started so far
    joined,            \* threads joined so far
    results_json,      \* the manifest written by save_results
    media_zip,         \* the media files packed into media.zip
    wpc,               \* position of each download_worker
    witem,             \* item held by each worker
    media_count,       \* each worker's local media_count
    wbytes,            \* declared content length of the current response
    wfile              \* filename chosen for the current item

inputs == <<web, media_types, min_size_kb, max_depth, max_pages, same_domain,
            max_per_type>>
crawlv == <<visited_urls, stack, nfetch>>
fsv    == <<files, complete>>
mainv  == <<pcMain, nthreads, started, joined, results_json, media_zip>>
queuev == <<download_queue, unfinished_tasks>>
workv  == <<witem, media_count, wbytes, wfile>>
vars   == <<inputs, crawlv, queuev, downloaded_media, fsv, mainv,
            wpc, workv>>

Workers == 1..MAX_THREADS

NoItem == <<>>
NoFile == [stem |-> "", num |-> 0, ext |-> ""]

\* the media types some page of the modelled web carries
Served == {t \in MediaTypes : \E p \in Pages : MediaRefs(p, t) # {}}

\* The runs the model enumerates are of two families, to keep their number
\* down: every web and crawl setting when the pages' images are not asked for
\* and no size or quota limit is set, and every media choice, size limit and
\* quota on the widest crawl of the web with a link cycle.
CrawlInputsVary ==
    /\ "images" \notin Range(media_types)
    /\ min_size_kb = 0
    /\ \A t \in DOMAIN max_per_type : max_per_type[t] = 0

DownloadInputsVary ==
    /\ web = "cycle"
    /\ max_depth = MaxDepthIn
    /\ max_pages = MaxPagesIn
    /\ same_domain = FALSE

Init ==
    /\ web \in Webs
    /\ \E choice \in Choices : media_types = media_map(choice)
    /\ min_size_kb \in 0..MaxMinSize
    /\ max_depth \in 0..MaxDepthIn
    /\ max_pages \in 0..MaxPagesIn
    /\ same_domain \in BOOLEAN
    /\ max_per_type \in [Range(media_types) -> 0..MaxLimit]
    /\ \A t \in Range(media_types) \ Served : max_per_type[t] = 0
    /\ \/ CrawlInputsVary
       \/ DownloadInputsVary
    /\ visited_urls = {}
    /\ download_queue = <<>>
    /\ unfinished_tasks = 0
    /\ downloaded_media = <<>>
    /\ stack = <<[url |-> Seed, depth |-> 0, stage |-> "call", todo |-> {}]>>
    /\ nfetch = [u \in Pages |-> 0]
    /\ files = {}
    /\ complete = {}
    /\ pcMain = "crawl"
    /\ nthreads = 0
    /\ started = 0
    /\ joined = 0
    /\ results_json = <<>>
    /\ media_zip = {}
    /\ wpc = [w \in Workers |-> "unborn"]
    /\ witem = [w \in Workers |-> NoItem]
    /\ media_count = [w \in Workers |-> <<>>]
    /\ wbytes = [w \in Workers |-> 0]
    /\ wfile = [w \in Workers |-> NoFile]

(* ------------------------------- crawl -------------------------------- *)
Top == stack[Len(stack)]
Pop == SubSeq(stack, 1, Len(stack) - 1)
ReplaceTop(f) == [stack EXCEPT ![Len(stack)] = f]

InCall == pcMain = "crawl" /\ stack # <<>> /\ Top.stage = "call"
InLinks == pcMain = "crawl" /\ stack # <<>> /\ Top.stage = "links"

\* line 135-136: the guard holds and the call returns
CrawlSkip ==
    /\ InCall
    /\ crawl_guard(Top.url, visited_urls, Top.depth, max_depth, max_pages)
    /\ stack' = Pop
    /\ UNCHANGED <<inputs, visited_urls, nfetch, queuev,
                   downloaded_media, fsv, mainv, wpc, workv>>

\* lines 140-147: the page is fetched and parsed, marked visited, and its
\* media links are queued
CrawlFetchOk ==
    /\ InCall
    /\ ~crawl_guard(Top.url, visited_urls, Top.depth, max_depth, max_pages)
    /\ nfetch' = [nfetch EXCEPT ![Top.url] = @ + 1]
    /\ visited_urls' = visited_urls \cup {Top.url}
    /\ \E items \in page_items(Top.url, media_types) :
          /\ download_queue' = download_queue \o items
          /\ unfinished_tasks' = unfinished_tasks + Len(items)
    /\ stack' = ReplaceTop([Top EXCEPT !.stage = "links",
                  !.todo = extract_links(Hrefs(web, Top.url), Top.url, same_domain)])
    /\ UNCHANGED <<inputs, downloaded_media, fsv, mainv, wpc, workv>>

\* a failed fetch whose exception also ends the caller's loop over its links
CrawlFetchFail_propagates ==
    /\ InCall
    /\ ~crawl_guard(Top.url, visited_urls, Top.depth, max_depth, max_pages)
    /\ nfetch' = [nfetch EXCEPT ![Top.url] = @ + 1]
    /\ stack' = SubSeq(stack, 1, IF Len(stack) >= 2 THEN Len(stack) - 2 ELSE 0)
    /\ UNCHANGED <<inputs, visited_urls, queuev, downloaded_media,
                   fsv, mainv, wpc, workv>>

\* lines 140-141, 152-153: get_page_content or the parser raises; the call
\* logs and returns
CrawlFetchFail ==
    /\ InCall
    /\ ~crawl_guard(Top.url, visited_urls, Top.depth, max_depth, max_pages)
    /\ nfetch' = [nfetch EXCEPT ![Top.url] = @ + 1]
    /\ stack' = Pop
    /\ UNCHANGED <<inputs, visited_urls, queuev, downloaded_media,
                   fsv, mainv, wpc, workv>>

\* lines 149-150: the next link of the page is crawled one level deeper
CrawlRecurse ==
    /\ InLinks
    /\ \E link \in Top.todo :
          stack' = Append(ReplaceTop([Top EXCEPT !.todo = @ \ {link}]),
                          [url |-> link, depth |-> Top.depth + 1,
                           stage |-> "call", todo |-> {}])
    /\ UNCHANGED <<inputs, visited_urls, nfetch, queuev,
                   downloaded_media, fsv, mainv, wpc, workv>>

\* line 149: the loop over the links is exhausted and the call returns
CrawlReturn ==
    /\ InLinks
    /\ Top.todo = {}
    /\ stack' = Pop
    /\ UNCHANGED <<inputs, visited_urls, nfetch, queuev,
                   downloaded_media, fsv, mainv, wpc, workv>>

(* -------------------------------- main -------------------------------- *)
\* the pool sized by the queue length alone
MainSizePool_uncapped ==
    /\ pcMain = "crawl"
    /\ stack = <<>>
    /\ nthreads' = Len(download_queue)
    /\ pcMain' = IF Len(download_queue) = 0 THEN "join" ELSE "start"
    /\ UNCHANGED <<inputs, crawlv, queuev, downloaded_media, fsv,
                   started, joined, results_json, media_zip, wpc, workv>>

\* lines 193-196: crawl has returned; the pool is sized from the queue
MainSizePool ==
    /\ pcMain = "crawl"
    /\ stack = <<>>
    /\ nthreads' = Min(MAX_THREADS, Len(download_queue))
    /\ pcMain' = IF Min(MAX_THREADS, Len(download_queue)) = 0
                 THEN "join" ELSE "start"
    /\ UNCHANGED <<inputs, crawlv, queuev, downloaded_media, fsv,
                   started, joined, results_json, media_zip, wpc, workv>>

\* lines 197-199: one more thread is created and started
MainStartThread ==
    /\ pcMain = "start"
    /\ started < nthreads
    /\ started' = started + 1
    /\ wpc' = [wpc EXCEPT ![started + 1] = "test"]
    /\ pcMain' = IF started + 1 = nthreads THEN "join" ELSE "start"
    /\ UNCHANGED <<inputs, crawlv, queuev, downloaded_media, fsv,
                   nthreads, joined, results_json, media_zip, workv>>

\* a join that returns without waiting for the thread to finish
MainJoin_nowait ==
    /\ pcMain = "join"
    /\ joined < nthreads
    /\ joined' = joined + 1
    /\ UNCHANGED <<inputs, crawlv, queuev, downloaded_media, fsv,
                   pcMain, nthreads, started, results_json, media_zip, wpc, workv>>

\* lines 201-202: t.join() returns for the next thread of the list
MainJoin ==
    /\ pcMain = "join"
    /\ joined < nthreads
    /\ wpc[joined + 1] = "exit"
    /\ joined' = joined + 1
    /\ UNCHANGED <<inputs, crawlv, queuev, downloaded_media, fsv,
                   pcMain, nthreads, started, results_json, media_zip, wpc, workv>>

\* lines 204-206: save_results writes the ledger out
MainSaveResults ==
    /\ pcMain = "join"
    /\ joined = nthreads
    /\ results_json' = downloaded_media
    /\ media_zip' = files
    /\ pcMain' = "done"
    /\ UNCHANGED <<inputs, crawlv, queuev, downloaded_media, fsv,
                   nthreads, started, joined, wpc, workv>>

(* --------------------------- download_worker -------------------------- *)
\* Steps that touch only the worker's own variables and the network are
\* folded into the step that precedes them; the variables item, size_kb and
\* filename are dead once an iteration ends and are cleared there.

\* line 52: the loop test reads download_queue.empty()
WorkerTest(w) ==
    /\ wpc[w] = "test"
    /\ wpc' = [wpc EXCEPT ![w] = IF download_queue = <<>> THEN "exit" ELSE "get"]
    /\ UNCHANGED <<inputs, crawlv, queuev, downloaded_media, fsv,
                   mainv, workv>>

\* download_queue.task_done(), lines 57 and 96
task_done(unfinished) == unfinished - 1

\* get() handing out the oldest item and leaving it on the queue
Take_peek(w) ==
    /\ wpc[w] = "get"
    /\ download_queue # <<>>
    /\ download_queue' = download_queue

\* line 53: get() blocks until an item is there and takes the oldest one
Take(w) ==
    /\ wpc[w] = "get"
    /\ download_queue # <<>>
    /\ download_queue' = Tail(download_queue)

\* the quota skip made inside the try block, where the finally clause
\* calls task_done once more
WorkerSkip_twice(w) ==
    /\ Take(w)
    /\ quota_reached(max_per_type, media_count[w], Head(download_queue)[2])
    /\ unfinished_tasks' = task_done(task_done(unfinished_tasks))
    /\ wpc' = [wpc EXCEPT ![w] = "test"]
    /\ UNCHANGED <<inputs, crawlv, downloaded_media, fsv, mainv, workv>>

\* lines 53-58: the quota test drops the item
WorkerSkip(w) ==
    /\ Take(w)
    /\ quota_reached(max_per_type, media_count[w], Head(download_queue)[2])
    /\ unfinished_tasks' = task_done(unfinished_tasks)
    /\ wpc' = [wpc EXCEPT ![w] = "test"]
    /\ UNCHANGED <<inputs, crawlv, downloaded_media, fsv, mainv, workv>>

\* lines 53-64, 93-96: the request, the status check or the header
\* conversion raises
WorkerFetchFail(w) ==
    /\ Take(w)
    /\ ~quota_reached(max_per_type, media_count[w], Head(download_queue)[2])
    /\ unfinished_tasks' = task_done(unfinished_tasks)
    /\ wpc' = [wpc EXCEPT ![w] = "test"]
    /\ UNCHANGED <<inputs, crawlv, downloaded_media, fsv, mainv, workv>>

\* open() given the bare filename, without the type folder
opened_unfoldered(fs, mtype, filename) == fs \cup {filepath("", filename)}

\* lines 73-77: the files that exist once open(filepath, 'wb') has returned
opened(fs, mtype, filename) == fs \cup {filepath(mtype, filename)}

\* the Content-Length headers a response may carry
Headers == {NoHeader} \cup {k * KB - 1 : k \in 1..MaxKB} \cup {k * KB : k \in 1..MaxKB}

\* the size test made only once the file has been created
WorkerReject_late(w) ==
    /\ Take(w)
    /\ ~quota_reached(max_per_type, media_count[w], Head(download_queue)[2])
    /\ \E h \in Headers : size_rejected(ContentLength(h), min_size_kb)
    /\ \E f \in filenames(Head(download_queue)[1]) :
          files' = opened(files, Head(download_queue)[2], f)
    /\ unfinished_tasks' = task_done(unfinished_tasks)
    /\ wpc' = [wpc EXCEPT ![w] = "test"]
    /\ UNCHANGED <<inputs, crawlv, downloaded_media, complete, mainv, workv>>

\* lines 53-66, 95-96: the declared size is below min_size_kb; continue
WorkerReject(w) ==
    /\ Take(w)
    /\ ~quota_reached(max_per_type, media_count[w], Head(download_queue)[2])
    /\ \E h \in Headers : size_rejected(ContentLength(h), min_size_kb)
    /\ unfinished_tasks' = task_done(unfinished_tasks)
    /\ wpc' = [wpc EXCEPT ![w] = "test"]
    /\ UNCHANGED <<inputs, crawlv, downloaded_media, fsv, mainv, workv>>

\* lines 53-75: the response passes the size test; filename and folder are
\* settled
WorkerAccept(w) ==
    /\ Take(w)
    /\ ~quota_reached(max_per_type, media_count[w], Head(download_queue)[2])
    /\ \E h \in Headers :
          /\ ~size_rejected(ContentLength(h), min_size_kb)
          /\ wbytes' = [wbytes EXCEPT ![w] = ContentLength(h)]
    /\ \E f \in filenames(Head(download_queue)[1]) :
          wfile' = [wfile EXCEPT ![w] = f]
    /\ witem' = [witem EXCEPT ![w] = Head(download_queue)]
    /\ wpc' = [wpc EXCEPT ![w] = "open"]
    /\ UNCHANGED <<inputs, crawlv, unfinished_tasks, downloaded_media, fsv, mainv,
                   media_count>>

\* the worker's variables once an iteration is over
Cleared(w) ==
    /\ witem' = [witem EXCEPT ![w] = NoItem]
    /\ wbytes' = [wbytes EXCEPT ![w] = 0]
    /\ wfile' = [wfile EXCEPT ![w] = NoFile]

\* line 77: open(filepath, 'wb') creates or truncates the file
WorkerOpen(w) ==
    /\ wpc[w] = "open"
    /\ files' = opened(files, witem[w][2], wfile[w])
    /\ complete' = complete \ {filepath(witem[w][2], wfile[w])}
    /\ wpc' = [wpc EXCEPT ![w] = "write"]
    /\ UNCHANGED <<inputs, crawlv, queuev, downloaded_media, mainv,
                   workv>>

\* lines 74, 77, 93-96: makedirs or open raises
WorkerOpenFail(w) ==
    /\ wpc[w] = "open"
    /\ wpc' = [wpc EXCEPT ![w] = "test"]
    /\ Cleared(w)
    /\ unfinished_tasks' = task_done(unfinished_tasks)
    /\ UNCHANGED <<inputs, crawlv, download_queue, downloaded_media, fsv,
                   mainv, media_count>>

\* the worker moving on to the append with the stream not yet written out
WorkerWrite_unclosed(w) ==
    /\ wpc[w] = "write"
    /\ wpc' = [wpc EXCEPT ![w] = "append"]
    /\ UNCHANGED <<inputs, crawlv, queuev, downloaded_media, fsv,
                   mainv, workv>>

\* lines 78-79: every chunk is written and the file is closed
WorkerWrite(w) ==
    /\ wpc[w] = "write"
    /\ complete' = complete \cup {filepath(witem[w][2], wfile[w])}
    /\ wpc' = [wpc EXCEPT ![w] = "append"]
    /\ UNCHANGED <<inputs, crawlv, queuev, downloaded_media, files,
                   mainv, workv>>

\* a failed write that puts the item back on the queue for another try
WorkerWriteFail_retry(w) ==
    /\ wpc[w] = "write"
    /\ wpc' = [wpc EXCEPT ![w] = "test"]
    /\ Cleared(w)
    /\ download_queue' = Append(download_queue, witem[w])
    /\ UNCHANGED <<inputs, crawlv, unfinished_tasks, downloaded_media, fsv,
                   mainv, media_count>>

\* lines 78-79, 93-96: the stream or a write raises; the file stays, cut short
WorkerWriteFail(w) ==
    /\ wpc[w] = "write"
    /\ wpc' = [wpc EXCEPT ![w] = "test"]
    /\ Cleared(w)
    /\ unfinished_tasks' = task_done(unfinished_tasks)
    /\ UNCHANGED <<inputs, crawlv, download_queue, downloaded_media, fsv,
                   mainv, media_count>>

\* what the critical section of lines 81-89 leaves in downloaded_media
appended(ledger, item, bytes, filename) ==
    Append(ledger, record(item, bytes, filename))

\* lines 81-96: under the lock the record is appended and the worker's own
\* counter incremented; then the loop iterates
WorkerAppend(w) ==
    /\ wpc[w] = "append"
    /\ downloaded_media' = appended(downloaded_media, witem[w], wbytes[w], wfile[w])
    /\ media_count' = [media_count EXCEPT ![w] = incremented(@, witem[w][2])]
    /\ wpc' = [wpc EXCEPT ![w] = "test"]
    /\ Cleared(w)
    /\ unfinished_tasks' = task_done(unfinished_tasks)
    /\ UNCHANGED <<inputs, crawlv, download_queue, fsv, mainv>>

Worker(w) ==
    \/ WorkerTest(w)
    \/ WorkerSkip(w)
    \/ WorkerFetchFail(w)
    \/ WorkerReject(w)
    \/ WorkerAccept(w)
    \/ WorkerOpen(w)
    \/ WorkerOpenFail(w)
    \/ WorkerWrite(w)
    \/ WorkerWriteFail(w)
    \/ WorkerAppend(w)

Crawl == CrawlSkip \/ CrawlFetchOk \/ CrawlFetchFail \/ CrawlRecurse \/ CrawlReturn

Main == MainSizePool \/ MainStartThread \/ MainJoin \/ MainSaveResults

Next ==
    \/ CrawlSkip
    \/ CrawlFetchOk
    \/ CrawlFetchFail
    \/ CrawlRecurse
    \/ CrawlReturn
    \/ MainSizePool
    \/ MainStartThread
    \/ MainJoin
    \/ MainSaveResults
    \/ \E w \in Workers : Worker(w)

Spec == Init /\ [][Next]_vars

\* every thread that is runnable keeps being scheduled
FairSpec ==
    /\ Spec
    /\ WF_vars(Crawl \/ Main)
    /\ \A w \in Workers : WF_vars(Worker(w))

(* ------------------------- a page of many images --------------------- *)
\* The pool reaches MAX_THREADS workers only when the crawl has queued at
\* least as many items.  In the runs below the seed page references up to
\* MaxGallery images, each under its own name and each declaring the same
\* Content-Length, and links nowhere; the user asks for images of no less
\* than that size, with a positive limit.

\* the most images the page holds: enough for every worker of a full pool to
\* meet the largest limit asked for here, as far as that takes the ledger
\* past limit + MAX_THREADS - 1
MaxGallery == MAX_THREADS + MaxLimit + 1

\* the i-th <img src> of the page
GalleryImage(i) ==
    [netloc |-> "a", dir |-> "/gallery/", stem |-> ToString(i), ext |-> ".png",
     urlext |-> ".png"]

InitGallery ==
    /\ web = "gallery"
    /\ media_types = media_map("1")
    /\ min_size_kb = MaxKB
    /\ max_depth = 0
    /\ max_pages \in 0..1
    /\ same_domain = TRUE
    /\ max_per_type \in [Range(media_types) -> 1..MaxLimit + 1]
    /\ visited_urls = {}
    /\ download_queue = <<>>
    /\ unfinished_tasks = 0
    /\ downloaded_media = <<>>
    /\ stack = <<[url |-> Seed, depth |-> 0, stage |-> "call", todo |-> {}]>>
    /\ nfetch = [u \in Pages |-> 0]
    /\ files = {}
    /\ complete = {}
    /\ pcMain = "crawl"
    /\ nthreads = 0
    /\ started = 0
    /\ joined = 0
    /\ results_json = <<>>
    /\ media_zip = {}
    /\ wpc = [w \in Workers |-> "unborn"]
    /\ witem = [w \in Workers |-> NoItem]
    /\ media_count = [w \in Workers |-> <<>>]
    /\ wbytes = [w \in Workers |-> 0]
    /\ wfile = [w \in Workers |-> NoFile]

\* lines 140-147 on the page of many images: the page is fetched, marked
\* visited, and its n images are queued, here in the order of their names
CrawlFetchGallery ==
    /\ InCall
    /\ web = "gallery"
    /\ ~crawl_guard(Top.url, visited_urls, Top.depth, max_depth, max_pages)
    /\ nfetch' = [nfetch EXCEPT ![Top.url] = @ + 1]
    /\ visited_urls' = visited_urls \cup {Top.url}
    /\ \E n \in 0..MaxGallery :
          /\ download_queue' = download_queue \o
                                  [i \in 1..n |-> <<GalleryImage(i), "images", Top.url>>]
          /\ unfinished_tasks' = unfinished_tasks + n
    /\ stack' = ReplaceTop([Top EXCEPT !.stage = "links",
                  !.todo = extract_links({}, Top.url, same_domain)])
    /\ UNCHANGED <<inputs, downloaded_media, fsv, mainv, wpc, workv>>

\* the worker is inside the body of its loop
InBody(w) == wpc[w] \in {"get", "open", "write", "append"}

\* the workers that are running
Runnable == {v \in Workers : wpc[v] \notin {"unborn", "exit"}}

\* those of them whose own count is still below the limit
Hungry == {v \in Runnable : ~quota_reached(max_per_type, media_count[v], "images")}

\* the thread of a set that was started first
First(S) == CHOOSE v \in S : \A u \in S : v <= u

\* The schedules followed on the page of many images: every download
\* succeeds and the workers run one loop iteration at a time, never two at
\* once; while items are queued the next iteration goes to the first worker
\* whose own count is below the limit, and to the first running worker when
\* there is none or the queue is empty.  No worker runs before main has
\* started the whole pool.
Sched(w) ==
    IF pcMain = "start" THEN FALSE
    ELSE IF \E v \in Workers : InBody(v) THEN InBody(w)
    ELSE IF download_queue # <<>> /\ Hungry # {} THEN w = First(Hungry)
    ELSE Runnable # {} /\ w = First(Runnable)

NextPool ==
    \/ CrawlSkip
    \/ CrawlFetchGallery
    \/ CrawlFetchFail
    \/ CrawlReturn
    \/ MainSizePool
    \/ MainStartThread
    \/ MainJoin
    \/ MainSaveResults
    \/ \E w \in Workers : Sched(w) /\ WorkerTest(w)
    \/ \E w \in Workers : Sched(w) /\ WorkerSkip(w)
    \/ \E w \in Workers : Sched(w) /\ WorkerAccept(w)
    \/ \E w \in Workers : Sched(w) /\ WorkerOpen(w)
    \/ \E w \in Workers : Sched(w) /\ WorkerWrite(w)
    \/ \E w \in Workers : Sched(w) /\ WorkerAppend(w)

SpecPool == InitGallery /\ [][NextPool]_vars

(* ------------------------------ properties ---------------------------- *)
RecordsOfType(t) == {i \in 1..Len(downloaded_media) : downloaded_media[i].type = t}

RecordsAt(path) ==
    {i \in 1..Len(downloaded_media) :
        filepath(downloaded_media[i].type, downloaded_media[i].filename) = path}

\* a get_page_content call is made in this step
Fetches == nfetch' # nfetch

\* the pages within k links of the seed, following the links crawl follows
RECURSIVE Within(_)
Within(k) ==
    IF k = 0 THEN {Seed}
    ELSE Within(k - 1) \cup
         UNION {extract_links(Hrefs(web, p), p, same_domain) : p \in Within(k - 1)}

\* C1: for every media type with a positive limit, the number of records of
\* that type never exceeds the limit, whatever the pool size and interleaving.
C1_QuotaBound ==
    \A t \in DOMAIN max_per_type :
        max_per_type[t] > 0 => Cardinality(RecordsOfType(t)) <= max_per_type[t]

\* main has finished and every worker that was started has left its loop
Terminated == pcMain = "done" /\ \A w \in Workers : wpc[w] \in {"unborn", "exit"}

\* C2: every started worker eventually exits, every join returns and
\* save_results is eventually executed: whatever the interleaving, the
\* program is never left with no thread able to take a step before that.
C2_WorkersTerminate == Terminated \/ ENABLED Next

\* C2, as an eventuality under fair scheduling
C2_EventuallyTerminated == <>Terminated

\* C3: get_page_content is invoked at most once per URL, also for a URL whose
\* first fetch failed and which is reached again through another page.
C3_NoDuplicateFetch == \A u \in Pages : nfetch[u] <= 1

\* C4: when save_results has run, every file under save_dir/<type>/ is
\* described by exactly one record with that type and filename.
C4_FilesHaveOneRecord ==
    pcMain = "done" => \A path \in files : Cardinality(RecordsAt(path)) = 1

\* C5: in every reachable state, every record in downloaded_media has a file
\* at save_dir/<type>/<filename>.
C5_RecordsHaveFiles ==
    \A i \in 1..Len(downloaded_media) :
        filepath(downloaded_media[i].type, downloaded_media[i].filename) \in files

\* a recorded file is being overwritten by another worker
C5_Witness ==
    \E w \in Workers :
        /\ wpc[w] = "write"
        /\ RecordsAt(filepath(witem[w][2], wfile[w])) # {}

\* C6: |visited_urls| <= max_pages in every reachable state, the states after
\* the top-level crawl call has returned included.
C6_PageCountBound == Cardinality(visited_urls) <= max_pages

C6_Witness ==
    /\ pcMain = "done"
    /\ max_pages >= 2
    /\ Cardinality(visited_urls) = max_pages
    /\ \E u \in Pages : nfetch[u] > 0 /\ u \notin visited_urls

\* C7: no page fetch is issued once |visited_urls| has reached max_pages; with
\* max_pages = 1 no page but the seed is ever fetched or marked visited.
C7_FetchCeiling ==
    [][/\ Fetches => Cardinality(visited_urls) < max_pages
       /\ max_pages = 1 =>
            \A u \in Pages \ {Seed} : nfetch'[u] = 0 /\ u \notin visited_urls']_vars

C7_Witness ==
    /\ max_pages = 1
    /\ visited_urls = {Seed}
    /\ InCall
    /\ Top.url # Seed
    /\ Top.depth <= max_depth

\* C8: every page fetch happens in a crawl call whose current_depth is at most
\* max_depth and equals the length of the link path formed by the active
\* calls, from the seed to the fetched URL; a page farther than max_depth
\* links from the seed is never fetched.
C8_DepthBound ==
    [][Fetches =>
         /\ Top.depth <= max_depth
         /\ Len(stack) = Top.depth + 1
         /\ stack[1].url = Seed
         /\ \A i \in 1..Len(stack) - 1 :
               /\ stack[i + 1].url \in Hrefs(web, stack[i].url)
               /\ stack[i + 1].depth = stack[i].depth + 1
         /\ Top.url \in Within(max_depth)]_vars

\* a call one level too deep that nothing but the depth test stops
C8_Witness ==
    /\ InCall
    /\ Top.depth = max_depth + 1
    /\ Top.url \notin visited_urls
    /\ Cardinality(visited_urls) < max_pages
    /\ nfetch[stack[Len(stack) - 1].url] > 0

\* C9: with same_domain set, every page URL that is fetched has the netloc of
\* the seed URL.
C9_DomainFilter ==
    same_domain => \A u \in Pages : nfetch[u] > 0 => netloc(u) = netloc(Seed)

C9_Witness ==
    /\ same_domain
    /\ pcMain = "done"
    /\ Cardinality(visited_urls) < max_pages
    /\ \E u \in visited_urls : \E h \in Hrefs(web, u) :
          /\ netloc(h) # netloc(Seed)
          /\ nfetch[u] > 0
          /\ max_depth >= 2

\* C10: no record in downloaded_media has size_kb < min_size_kb.
C10_SizeFilter ==
    \A i \in 1..Len(downloaded_media) : downloaded_media[i].size_kb >= min_size_kb

C10_Witness ==
    /\ min_size_kb >= 1
    /\ \E i \in 1..Len(downloaded_media) : downloaded_media[i].size_kb = min_size_kb


\* C11: a step in which a worker rejects the item it has just taken, because
\* the declared Content-Length is below min_size_kb, leaves the files, the
\* ledger and every quota counter as they were, takes the item off the queue
\* for good, and puts the worker back at its loop test.
C11_UndersizedDropped ==
    [][\A w \in Workers :
          WorkerReject(w) =>
              /\ files' = files
              /\ complete' = complete
              /\ downloaded_media' = downloaded_media
              /\ media_count' = media_count
              /\ download_queue' = Tail(download_queue)
              /\ wpc'[w] = "test"]_vars

\* a size limit is set, every queued item has been dropped, nothing was
\* written or recorded, and a worker is back at its loop test
C11_Witness ==
    /\ min_size_kb >= 1
    /\ nthreads > 0
    /\ download_queue = <<>>
    /\ unfinished_tasks = 0
    /\ files = {}
    /\ downloaded_media = <<>>
    /\ \E w \in Workers : wpc[w] = "test" /\ media_count[w] = <<>>


\* C12: for every media type with a positive limit L and a pool of W
\* workers, the ledger never holds more than L + (W - 1) records of that
\* type.
C12_OvershootBound ==
    \A t \in DOMAIN max_per_type :
        (max_per_type[t] > 0 /\ pcMain # "crawl") =>
            Cardinality(RecordsOfType(t)) <= max_per_type[t] + (nthreads - 1)


\* the workers that hold an item they have taken off the queue
Holding == {w \in Workers : wpc[w] \in {"open", "write", "append"}}

\* the workers that leave line 53 in this step
Getters == {w \in Workers : wpc[w] = "get" /\ wpc'[w] # "get"}

\* C13: every item crawl has put on download_queue is obtained by at most
\* one worker and at most once, and by exactly one once all workers have
\* exited: the queued items and the items held by workers are pairwise
\* different, the queue changes only by crawl appending to it or by exactly
\* one worker taking its head, the item that worker then holds, and the
\* queue is empty when every started worker has left its loop.
C13_ExactlyOnce ==
    /\ [](/\ \A i, j \in 1..Len(download_queue) :
                i # j => download_queue[i] # download_queue[j]
          /\ \A w \in Holding :
                /\ witem[w] \notin Range(download_queue)
                /\ \A v \in Holding \ {w} : witem[v] # witem[w]
          /\ (pcMain \in {"join", "done"}
                /\ \A w \in 1..nthreads : wpc[w] = "exit") => download_queue = <<>>)
    /\ [][/\ download_queue' # download_queue =>
                \/ /\ pcMain = "crawl"
                   /\ Getters = {}
                   /\ Len(download_queue') > Len(download_queue)
                   /\ SubSeq(download_queue', 1, Len(download_queue)) = download_queue
                \/ /\ download_queue # <<>>
                   /\ download_queue' = Tail(download_queue)
                   /\ Cardinality(Getters) = 1
          /\ \A w \in Getters :
                /\ download_queue # <<>>
                /\ download_queue' = Tail(download_queue)
                /\ wpc'[w] = "open" => witem'[w] = Head(download_queue)]_vars

\* two workers have each downloaded an item of the queue, the queue is
\* drained and every worker has left its loop
C13_Witness ==
    /\ pcMain = "join"
    /\ download_queue = <<>>
    /\ \A w \in 1..nthreads : wpc[w] = "exit"
    /\ \E v, w \in 1..nthreads :
          v # w /\ media_count[v] # <<>> /\ media_count[w] # <<>>


\* C14: save_results starts only when every started worker has left its
\* loop, and from then on neither the ledger nor the files change: what
\* results.json and media.zip hold is the final ledger and the final set of
\* files.
C14_ManifestBarrier ==
    /\ [](pcMain = "done" =>
            /\ \A w \in Workers : wpc[w] \in {"unborn", "exit"}
            /\ \A w \in 1..started : wpc[w] = "exit"
            /\ results_json = downloaded_media
            /\ media_zip = files)
    /\ [][/\ (pcMain = "join" /\ pcMain' = "done") =>
                \A w \in 1..started : wpc[w] = "exit" /\ wpc'[w] = "exit"
          /\ pcMain = "done" =>
                /\ downloaded_media' = downloaded_media
                /\ files' = files
                /\ complete' = complete]_vars

\* the manifest of a run in which two workers ran and something was
\* downloaded has been written
C14_Witness ==
    /\ pcMain = "done"
    /\ started >= 2
    /\ results_json # <<>>
    /\ media_zip # {}


\* C15: a step in which the request, the creation of the file or the writing
\* of the stream fails appends no record and increments no counter; the item
\* is gone from the queue and from every worker's hands, nothing is added to
\* the queue, the failing worker is back at its loop test and every other
\* worker is where it was.
C15_FailureContained ==
    [][\A w \in Workers :
          (WorkerFetchFail(w) \/ WorkerOpenFail(w) \/ WorkerWriteFail(w)) =>
              LET item == IF wpc[w] = "get" THEN Head(download_queue) ELSE witem[w]
              IN  /\ downloaded_media' = downloaded_media
                  /\ media_count' = media_count
                  /\ item \notin Range(download_queue')
                  /\ Range(download_queue') \subseteq Range(download_queue)
                  /\ Len(download_queue') <= Len(download_queue)
                  /\ \A v \in Workers : witem'[v] # item
                  /\ wpc'[w] = "test"
                  /\ \A v \in Workers \ {w} : wpc'[v] = wpc[v]]_vars

\* a file was cut short by a failed write: it has no record, no worker holds
\* its item any more, and the workers are still draining the queue
C15_Witness ==
    /\ download_queue # <<>>
    /\ \E w \in Workers : wpc[w] = "test"
    /\ \E path \in files \ complete :
          /\ RecordsAt(path) = {}
          /\ \A w \in Holding : filepath(witem[w][2], wfile[w]) # path


\* the path a worker holding an item writes to
Target(w) == filepath(witem[w][2], wfile[w])

\* C16: the ledger changes only by a worker at its locked append adding the
\* record of the item it holds; a worker reaches that point only by the step
\* that writes the whole stream and closes the file, which then exists in
\* full; and a step in which the request, the file creation or the writing
\* fails, or the item is skipped or rejected, leaves the ledger as it was.
C16_NoPartialSuccess ==
    [][/\ downloaded_media' # downloaded_media =>
             \E w \in Workers :
                 /\ wpc[w] = "append"
                 /\ Target(w) \in files
                 /\ downloaded_media' =
                        Append(downloaded_media, record(witem[w], wbytes[w], wfile[w]))
       /\ \A w \in Workers :
             /\ (wpc[w] # "append" /\ wpc'[w] = "append") =>
                    /\ wpc[w] = "write"
                    /\ Target(w) \in files'
                    /\ Target(w) \in complete'
             /\ (wpc[w] \in {"get", "open", "write"} /\ wpc'[w] = "test") =>
                    downloaded_media' = downloaded_media]_vars

\* two items were taken and one of them was dropped or interrupted: the one
\* record of the ledger is of a file that exists in full
C16_Witness ==
    /\ nthreads >= 2
    /\ unfinished_tasks = 0
    /\ Len(downloaded_media) = 1
    /\ \E path \in complete : RecordsAt(path) = {1}


\* C17: a step in which the fetch of a page fails leaves visited_urls and
\* download_queue as they were and ends that one crawl call only: the
\* caller's call, and every call below it, is still active, at its loop over
\* the links of its page, with the links it had left to crawl.
C17_CrawlFailureContained ==
    [][CrawlFetchFail =>
          /\ visited_urls' = visited_urls
          /\ download_queue' = download_queue
          /\ pcMain' = "crawl"
          /\ Len(stack') = Len(stack) - 1
          /\ \A k \in 1..Len(stack') :
                /\ stack'[k] = stack[k]
                /\ stack'[k].stage = "links"]_vars

\* the fetch of a linked page has failed and the seed's call is at its loop
\* with a sibling link left to crawl
C17_Witness ==
    /\ Len(stack) = 1
    /\ Top.stage = "links"
    /\ Top.todo # {}
    /\ visited_urls = {Seed}
    /\ \E u \in Pages : nfetch[u] > 0 /\ u \notin visited_urls


\* the threads main has started
Born == {w \in Workers : wpc[w] # "unborn"}

\* C18: the pool is sized in the step that follows the return of the
\* top-level crawl call, to the smaller of MAX_THREADS and the length the
\* queue then has, and that many threads are started, no more; with an empty
\* queue no thread is started and save_results can run at once; no thread
\* exists while crawl runs, and once crawl has returned the queue never
\* grows.
C18_PoolSizing ==
    /\ [](/\ pcMain = "crawl" => Born = {} /\ nthreads = 0
          /\ stack # <<>> => pcMain = "crawl"
          /\ Born = 1..started
          /\ started <= nthreads
          /\ nthreads <= MAX_THREADS
          /\ pcMain \in {"join", "done"} => started = nthreads
          /\ (pcMain = "join" /\ nthreads = 0) => ENABLED MainSaveResults)
    /\ [][/\ (pcMain = "crawl" /\ pcMain' # "crawl") =>
                /\ stack = <<>>
                /\ download_queue' = download_queue
                /\ nthreads' = IF Len(download_queue) <= MAX_THREADS
                                THEN Len(download_queue) ELSE MAX_THREADS
          /\ pcMain # "crawl" =>
                /\ nthreads' = nthreads
                /\ Len(download_queue') <= Len(download_queue)]_vars

\* the crawl queued more than MAX_THREADS items and main has started
\* MAX_THREADS threads, none of which has taken an item yet
C18_Witness ==
    /\ pcMain = "join"
    /\ Cardinality(Born) = MAX_THREADS
    /\ Len(download_queue) > MAX_THREADS
    /\ Len(download_queue) = unfinished_tasks


\* media_count.get(t, 0) of worker w
CountOf(w, t) == IF t \in DOMAIN media_count[w] THEN media_count[w][t] ELSE 0

\* the counts of workers 1..k for type t, added up
RECURSIVE SumCounts(_, _)
SumCounts(k, t) == IF k = 0 THEN 0 ELSE CountOf(k, t) + SumCounts(k - 1, t)

\* C19: each worker's own count of a type is the number of records of that
\* type it has appended: it grows by one in exactly the steps in which that
\* worker appends such a record, and the counts of all workers add up to the
\* records of the type.  For every type with a positive limit L no worker's
\* count exceeds L, so the ledger never holds more than W * L records of the
\* type for a pool of W workers, and no more than L for a pool of one.
C19_PerWorkerQuota ==
    /\ [](\A t \in MediaTypes :
            /\ SumCounts(MAX_THREADS, t) = Cardinality(RecordsOfType(t))
            /\ \A w \in Workers \ Born : CountOf(w, t) = 0
            /\ (t \in DOMAIN max_per_type /\ max_per_type[t] > 0) =>
                  /\ \A w \in Workers : CountOf(w, t) <= max_per_type[t]
                  /\ Cardinality(RecordsOfType(t)) <= nthreads * max_per_type[t]
                  /\ nthreads = 1 => Cardinality(RecordsOfType(t)) <= max_per_type[t])
    /\ [][\A w \in Workers :
             media_count'[w] # media_count[w] =>
                 /\ wpc[w] = "append"
                 /\ downloaded_media' =
                        Append(downloaded_media, record(witem[w], wbytes[w], wfile[w]))
                 /\ \A t \in MediaTypes :
                        CountOf(w, t)' = CountOf(w, t) + (IF t = witem[w][2] THEN 1 ELSE 0)]_vars

\* every worker of a full pool has met the limit: the ledger holds W * L
\* records, the item queued next has been skipped, and more are queued
C19_Witness ==
    /\ nthreads = MAX_THREADS
    /\ Len(downloaded_media) = MAX_THREADS * max_per_type["images"]
    /\ \A w \in Workers : wpc[w] = "test"
    /\ download_queue # <<>>
    /\ Head(download_queue)[1] = GalleryImage(Len(downloaded_media) + 2)


\* C20: every loop iteration of download_worker calls task_done exactly once
\* for the item it has taken, whichever way it ends: the queue's count of
\* unfinished tasks drops by one in the step that ends an iteration and in no
\* other step, and always equals the items still queued plus the items
\* workers hold; it is never negative and is zero once every worker has left
\* its loop.
C20_TaskDoneOnce ==
    /\ [](/\ unfinished_tasks = Len(download_queue) + Cardinality(Holding)
          /\ unfinished_tasks >= 0
          /\ (pcMain \in {"join", "done"} /\ \A w \in Born : wpc[w] = "exit") =>
                unfinished_tasks = 0)
    /\ [][/\ \A w \in Workers :
                (wpc[w] \in {"get", "open", "write", "append"} /\ wpc'[w] = "test") =>
                    unfinished_tasks' = unfinished_tasks - 1
          /\ unfinished_tasks' < unfinished_tasks =>
                \E w \in Workers :
                    wpc[w] \in {"get", "open", "write", "append"} /\ wpc'[w] = "test"]_vars

\* the first worker has downloaded the first item queued, met the limit and
\* skipped the second; one item is left and no other thread is started yet
C20_Witness ==
    /\ "images" \in DOMAIN max_per_type
    /\ max_per_type["images"] = 1
    /\ Born = {1}
    /\ wpc[1] = "test"
    /\ Len(downloaded_media) = 1
    /\ downloaded_media[1].source_page = Seed
    /\ Len(download_queue) = 1
    /\ unfinished_tasks = 1

====
